---- MODULE Spec2Model ----
(***************************************************************************)
(* A model of the render-and-export pipeline of draw.io-export             *)
(* (export-core.js): the asset cache (cacheExists, cache), the render call  *)
(* (module.exports) with its browser session, request interception, the    *)
(* per-page render pass (gen) and the cat-pdf merge loop.                   *)
(*                                                                         *)
(* JavaScript runs a continuation to its next await without interruption:  *)
(* every action below is one such segment, or one event delivered by the   *)
(* outside world (the file system, the network, the browser).              *)
(***************************************************************************)
EXTENDS Integers, Sequences, FiniteSets, TLC

VARIABLES file, ens, call, req, env, cachePath, API_KEY, http

vars == <<file, ens, call, req, env, cachePath, API_KEY, http>>

\* what a render call leaves alone: the process environment, the constants
\* computed at load and the server's requests
process == <<env, cachePath, API_KEY, http>>

(***************************************************************************)
(* Bounds of the model.                                                    *)
(***************************************************************************)
\* manifest entries modelled (the first NumResources entries of cacheDict)
NumResources == 1
\* chunks a response stream delivers before it ends
NChunks == 2
\* largest page count of a well-formed document
MaxPages == 3
\* sub-resource requests the page issues in one session
MaxRequests == 1
\* length of the longest buffer an export resolves with
MaxBytes == 3

\* the render calls: two, so that two calls can overlap on a cold cache
Calls == {"r1", "r2"}

(***************************************************************************)
(* The process environment and the constants the modules compute from it   *)
(* when they are loaded.                                                   *)
(***************************************************************************)
\* process.env.X: absent, or a string
EnvUnset == [set |-> FALSE, val |-> ""]
EnvVal(s) == [set |-> TRUE, val |-> s]

\* if (process.env.X), X || d: an absent or empty variable is falsy
Truthy(v) == v.set /\ v.val # ""

\* __dirname of export-core.js
Dirname == "/app"

\* path.join of its arguments, as the list of the joined segments
PathJoin(segs) == segs

\* (mutant) HOME is looked at before XDG_CACHE_HOME
cachePathHomeFirst(e) ==
  IF Truthy(e.HOME)
    THEN PathJoin(<<e.HOME.val, ".cache", "draw.io-export">>)
  ELSE IF Truthy(e.XDG_CACHE_HOME)
    THEN PathJoin(<<e.XDG_CACHE_HOME.val, "draw.io-export">>)
  ELSE PathJoin(<<Dirname, ".cache">>)

\* line 9-15: the directory the assets are cached in
cachePathOf(e) ==
  IF Truthy(e.XDG_CACHE_HOME)
    THEN PathJoin(<<e.XDG_CACHE_HOME.val, "draw.io-export">>)
  ELSE IF Truthy(e.HOME)
    THEN PathJoin(<<e.HOME.val, ".cache", "draw.io-export">>)
  ELSE PathJoin(<<Dirname, ".cache">>)

\* api.js line 11: process.env.API_KEY || '11223344zzz'
DefaultKey == "11223344zzz"
apiKeyOf(e) == IF Truthy(e.API_KEY) THEN e.API_KEY.val ELSE DefaultKey

\* the environments a process is started in
EnvValues ==
  [API_KEY |-> {EnvUnset, EnvVal(""), EnvVal("s3cret")},
   HOME |-> {EnvUnset, EnvVal(""), EnvVal("/home/u")},
   XDG_CACHE_HOME |-> {EnvUnset, EnvVal(""), EnvVal("/xdg")}]
Envs == {e \in [DOMAIN EnvValues -> UNION {EnvValues[x] : x \in DOMAIN EnvValues}] :
           \A x \in DOMAIN EnvValues : e[x] \in EnvValues[x]}

\* a usual environment: HOME set, nothing else
HostEnv == [API_KEY |-> EnvUnset, HOME |-> EnvVal("/home/u"), XDG_CACHE_HOME |-> EnvUnset]

\* the modules are loaded in environment e
LoadModules(e) ==
  /\ env = e
  /\ cachePath = cachePathOf(e)
  /\ API_KEY = apiKeyOf(e)

\* process.env.X = v, delete process.env.X, at any time after the load
SetEnv(x, v) ==
  /\ env[x] # v
  /\ env' = [env EXCEPT ![x] = v]
  /\ UNCHANGED <<file, ens, call, req, cachePath, API_KEY, http>>

(***************************************************************************)
(* The cache manifest.                                                     *)
(***************************************************************************)
cacheDictAll ==
  << <<"https://app.diagrams.net/export3.html", "export3.html">>,
     <<"https://app.diagrams.net/js/app.min.js", "app.min.js">>,
     <<"https://cdnjs.cloudflare.com/ajax/libs/mathjax/2.7.5/MathJax.js?config=TeX-MML-AM_HTMLorMML", "MathJax.js">>,
     <<"https://cdnjs.cloudflare.com/ajax/libs/mathjax/2.7.5/config/TeX-MML-AM_HTMLorMML.js?V=2.7.5", "TeX-MML-AM_HTMLorMML.js">>,
     <<"https://cdn.mathjax.org/mathjax/contrib/a11y/accessibility-menu.js?V=2.7.5", "accessibility-menu.js">> >>

cacheDict == SubSeq(cacheDictAll, 1, NumResources)

\* _.toPairs(cacheDict): the (f, t) pairs ensureAll fans out over
toPairs == {cacheDict[i] : i \in 1..Len(cacheDict)}

Urls == {p[1] : p \in toPairs}
Names == {p[2] : p \in toPairs}

\* cacheDict[url]: the local name, or "undefined"
cacheDictGet(url) ==
  IF url \in Urls THEN (CHOOSE p \in toPairs : p[1] = url)[2] ELSE "undefined"

(***************************************************************************)
(* The cache directory: per local name, whether the file exists and which  *)
(* chunk positions hold the resource's bytes (1) or a hole (0).            *)
(***************************************************************************)
AbsentFile == [exists |-> FALSE, data |-> <<>>]

CompleteData == [i \in 1..NChunks |-> 1]

CompleteFile == [exists |-> TRUE, data |-> CompleteData]

\* fs.exists(path.join(cachePath, t))
cacheExists(t) == file[t].exists

\* fs.open(path, 'w') of a write stream: creates or truncates the file
OpenTruncate(t) == [file EXCEPT ![t] = [exists |-> TRUE, data |-> <<>>]]

\* one chunk written at the stream's own position k (0-based)
WriteAt(d, k) ==
  [i \in 1..(IF Len(d) > k + 1 THEN Len(d) ELSE k + 1) |->
     IF i = k + 1 THEN 1 ELSE IF i <= Len(d) THEN d[i] ELSE 0]

(***************************************************************************)
(* cache(f, t): one ensure of one resource by one render call.             *)
(*   pc: idle, exists (awaiting cacheExists), get (awaiting axios.get),    *)
(*       stream (awaiting end or error), resolved, rejected                *)
(*   ws: the write stream: none, pending (created, not yet open), open     *)
(***************************************************************************)
\* what a cache(f, t) promise rejects with: the error axios.get threw, or
\* the value undefined of the reject() of line 43
AxiosError == "AxiosError"
Undefined == "undefined"

IdleEnsure ==
  [pc |-> "idle", sawAbsent |-> FALSE, ws |-> "none", recv |-> 0, written |-> 0,
   reason |-> ""]

\* (mutant) the result of the existence check is ignored
CacheExistsMissNoCheck(e, present) ==
  [e EXCEPT !.pc = "get", !.sawAbsent = TRUE]

\* line 30-33: the existence check and, when absent, the axios.get request
CacheExistsStep(e, present) ==
  IF present THEN [e EXCEPT !.pc = "resolved"]
  ELSE [e EXCEPT !.pc = "get", !.sawAbsent = TRUE]

CacheExists(c, t) ==
  /\ ens[c][t].pc = "exists"
  /\ ens' = [ens EXCEPT ![c][t] = CacheExistsStep(@, cacheExists(t))]
  /\ UNCHANGED <<file, call, req, process>>

\* line 33-45: the response arrives; mkdir, createWriteStream, pipe
AxiosGetOk(c, t) ==
  /\ ens[c][t].pc = "get"
  /\ ens' = [ens EXCEPT ![c][t] = [@ EXCEPT !.pc = "stream", !.ws = "pending"]]
  /\ UNCHANGED <<file, call, req, process>>

\* line 33: network error or non-success status: axios.get rejects
AxiosGetFail(c, t) ==
  /\ ens[c][t].pc = "get"
  /\ ens' = [ens EXCEPT ![c][t] = [@ EXCEPT !.pc = "rejected", !.reason = AxiosError]]
  /\ UNCHANGED <<file, call, req, process>>

\* line 37: the write stream's asynchronous open (flags 'w')
WriteStreamOpen(c, t) ==
  /\ ens[c][t].ws = "pending"
  /\ ens' = [ens EXCEPT ![c][t] = [@ EXCEPT !.ws = "open"]]
  /\ file' = OpenTruncate(t)
  /\ UNCHANGED <<call, req, process>>

\* line 37: a 'data' event, piped into the write stream's buffer
StreamData(c, t) ==
  /\ ens[c][t].pc = "stream"
  /\ ens[c][t].recv < NChunks
  /\ ens' = [ens EXCEPT ![c][t] = [@ EXCEPT !.recv = @ + 1]]
  /\ UNCHANGED <<file, call, req, process>>

\* line 37: the open write stream flushes one buffered chunk to disk
WriteChunk(c, t) ==
  /\ ens[c][t].ws = "open"
  /\ ens[c][t].written < ens[c][t].recv
  /\ ens' = [ens EXCEPT ![c][t] = [@ EXCEPT !.written = @ + 1]]
  /\ file' = [file EXCEPT ![t] = [@ EXCEPT !.data = WriteAt(@, ens[c][t].written)]]
  /\ UNCHANGED <<call, req, process>>

\* line 39-41: 'end' of the response stream resolves the ensure
StreamEnd(c, t) ==
  /\ ens[c][t].pc = "stream"
  /\ ens[c][t].recv = NChunks
  /\ ens' = [ens EXCEPT ![c][t] = [@ EXCEPT !.pc = "resolved"]]
  /\ UNCHANGED <<file, call, req, process>>

\* line 42-44: 'error' of the response stream rejects the ensure, by a
\* reject() without a reason
StreamError(c, t) ==
  /\ ens[c][t].pc = "stream"
  /\ ens' = [ens EXCEPT ![c][t] =
               [@ EXCEPT !.pc = "rejected", !.reason = Undefined]]
  /\ UNCHANGED <<file, call, req, process>>

(***************************************************************************)
(* Format strings, as sequences of characters, and the match of line 138:  *)
(*   /^(?<prefix>.*-)?(?<core>png|pdf)$/                                   *)
(***************************************************************************)
PNG == <<"p", "n", "g">>
PDF == <<"p", "d", "f">>
CAT == <<"c", "a", "t", "-">>
SPLIT == <<"s", "p", "l", "i", "t", "-">>
SPLIT_INDEX == SPLIT \o <<"i", "n", "d", "e", "x", "-">>
SPLIT_ID == SPLIT \o <<"i", "d", "-">>
SPLIT_NAME == SPLIT \o <<"n", "a", "m", "e", "-">>

\* the format strings the calls are given: one for every branch of the
\* match and the switch of line 138-179
Formats ==
  { PNG, PDF, CAT \o PDF, CAT \o PNG, SPLIT \o PNG,
    <<"x", "-">> \o PDF, <<"b", "m", "p">> }

\* more format strings: every split format, a doubled modifier, a prefix
\* without dash, a bare dash, the empty string, upper case, a line
\* terminator inside the prefix and after the core
FormatsAll ==
  Formats \cup
  { SPLIT \o PDF, SPLIT_INDEX \o PNG, SPLIT_INDEX \o PDF, SPLIT_ID \o PNG,
    SPLIT_ID \o PDF, SPLIT_NAME \o PNG, SPLIT_NAME \o PDF,
    CAT \o CAT \o PDF, <<"x">> \o PNG, <<"-">> \o PNG, <<>>, <<"P", "N", "G">>,
    <<"a", "\n", "-">> \o PNG, PDF \o <<"\n">> }

\* '.' matches any character but a line terminator
Dot(ch) == ch \notin {"\n", "\r"}

\* format.match(...): m is null (matched = FALSE) or carries the groups;
\* the prefix group is undefined (hasPrefix = FALSE) when it did not take part
NoMatch == [matched |-> FALSE, hasPrefix |-> FALSE, prefix |-> <<>>, core |-> <<>>]

\* (mutant) the prefix group is /(.*)?/: it need not end in a dash
FormatMatchAnyPrefix(f) ==
  IF Len(f) < 3 THEN NoMatch
  ELSE LET core == SubSeq(f, Len(f) - 2, Len(f))
           pre == SubSeq(f, 1, Len(f) - 3)
       IN IF core \notin {PNG, PDF} THEN NoMatch
          ELSE IF pre = <<>>
            THEN [matched |-> TRUE, hasPrefix |-> FALSE, prefix |-> <<>>, core |-> core]
          ELSE IF \A i \in 1..Len(pre) : Dot(pre[i])
            THEN [matched |-> TRUE, hasPrefix |-> TRUE, prefix |-> pre, core |-> core]
          ELSE NoMatch

FormatMatch(f) ==
  IF Len(f) < 3 THEN NoMatch
  ELSE LET core == SubSeq(f, Len(f) - 2, Len(f))
           pre == SubSeq(f, 1, Len(f) - 3)
       IN IF core \notin {PNG, PDF} THEN NoMatch
          ELSE IF pre = <<>>
            THEN [matched |-> TRUE, hasPrefix |-> FALSE, prefix |-> <<>>, core |-> core]
          ELSE IF pre[Len(pre)] = "-" /\ \A i \in 1..Len(pre) : Dot(pre[i])
            THEN [matched |-> TRUE, hasPrefix |-> TRUE, prefix |-> pre, core |-> core]
          ELSE NoMatch

(***************************************************************************)
(* Documents: the value of the root's pages attribute and the root's       *)
(* children (0: a non-element node, n > 0: the n-th page element).         *)
(***************************************************************************)
AttrAbsent == [v |-> 0, k |-> "absent"]
AttrEmpty == [v |-> 0, k |-> "empty"]
AttrText == [v |-> 0, k |-> "text"]
AttrInt(n) == [v |-> n, k |-> "int"]

PageElems(n) == [i \in 1..n |-> i]

\* a document of n pages as the editor writes it
WellFormedDoc(n) == [attr |-> AttrInt(n), kids |-> PageElems(n)]

Docs ==
  {WellFormedDoc(n) : n \in 1..MaxPages}
  \cup {[attr |-> AttrAbsent, kids |-> PageElems(1)]}
  \cup {[attr |-> AttrInt(2), kids |-> k] : k \in {<<0, 1, 0, 2>>, <<1>>}}

\* two-page documents whose pages attribute is not the count the editor
\* writes: '0', '-1', a non-numeric text, the empty string
OddDocs ==
  {[attr |-> a, kids |-> PageElems(2)] :
     a \in {AttrInt(0), AttrInt(-1), AttrText, AttrEmpty}}

\* the arrangements of the root's children: page elements (numbered) with
\* no, one or several non-element nodes (0) ahead of, between and after
\* them, one page element only, no page element at all
Arrangements ==
  {<<1, 2>>, <<0, 1, 2>>, <<0, 0, 1, 0, 2>>, <<1, 0, 2>>, <<1, 2, 0>>, <<0, 1>>, <<0>>, <<>>}

\* documents of every arrangement, with a pages attribute that is absent or
\* says two or MaxPages pages
ShapedDocs ==
  {[attr |-> a, kids |-> k] :
     a \in {AttrAbsent, AttrInt(2), AttrInt(MaxPages)}, k \in Arrangements}

\* line 83: +(getAttribute('pages') || 1); NaN for a non-numeric string
NaN == [v |-> 0, k |-> "nan"]
Num(n) == [v |-> n, k |-> "int"]

pagesOf(attr) ==
  CASE attr.k = "absent" -> Num(1)
    [] attr.k = "empty" -> Num(1)
    [] attr.k = "text" -> NaN
    [] OTHER -> Num(attr.v)

\* i < pages (false when pages is NaN)
LoopLess(i, p) == p.k = "int" /\ i < p.v

(***************************************************************************)
(* The render call.                                                        *)
(***************************************************************************)
NoOutcome == [kind |-> "none", msg |-> "", arg |-> <<>>, type |-> <<>>, pages |-> <<>>]
Err(m, a) == [kind |-> "err", msg |-> m, arg |-> a, type |-> <<>>, pages |-> <<>>]
Ok(ty, ps) == [kind |-> "ok", msg |-> "", arg |-> <<>>, type |-> ty, pages |-> ps]

IdleCall ==
  [i |-> 0, pc |-> "idle", core |-> <<>>, kids |-> <<>>, pages |-> Num(1),
   format |-> <<>>, xml |-> [attr |-> AttrAbsent, kids |-> <<>>],
   browser |-> "none", closeCalls |-> 0, hook |-> FALSE, injected |-> FALSE,
   mode |-> "none",
   passes |-> <<>>, buffers |-> <<>>, mergerNew |-> FALSE, merger |-> <<>>,
   saved |-> FALSE,
   pending |-> NoOutcome, result |-> NoOutcome]

\* line 48-51: the call starts one cache(f, t) per manifest entry
exportDiagram(c, f, d) ==
  /\ call[c].pc = "idle"
  /\ call' = [call EXCEPT ![c] =
                [@ EXCEPT !.pc = "ensureAll", !.format = f, !.xml = d]]
  /\ ens' = [ens EXCEPT ![c] = [t \in Names |-> [IdleEnsure EXCEPT !.pc = "exists"]]]
  /\ UNCHANGED <<file, req>>

\* the module is used as a library: the caller is not the server
Invoke(c, f, d) ==
  /\ exportDiagram(c, f, d)
  /\ UNCHANGED process

\* (mutant) the fan-out waits for every ensure to settle, not to resolve
AllSettledOnly(e) == \A t \in Names : e[t].pc \in {"resolved", "rejected"}

\* Promise.all of line 51: fulfilled when every cache(f, t) has resolved,
\* rejected as soon as one has rejected
PromiseAllFulfilled(e) == \A t \in Names : e[t].pc = "resolved"

PromiseAllRejected(e) == \E t \in Names : e[t].pc = "rejected"

\* line 51 -> 53: puppeteer.launch is called
EnsureAllDone(c) ==
  /\ call[c].pc = "ensureAll"
  /\ PromiseAllFulfilled(ens[c])
  /\ call' = [call EXCEPT ![c] = [@ EXCEPT !.pc = "launch"]]
  /\ UNCHANGED <<file, ens, req, process>>

\* line 51: the await throws; the call rejects before any launch
EnsureAllFailed(c) ==
  /\ call[c].pc = "ensureAll"
  /\ PromiseAllRejected(ens[c])
  /\ \E t \in Names :
       /\ ens[c][t].pc = "rejected"
       /\ call' = [call EXCEPT ![c] =
                     [@ EXCEPT !.pc = "done", !.result = Err(ens[c][t].reason, <<>>)]]
  /\ UNCHANGED <<file, ens, req, process>>

\* line 53-60: the browser is up; the try block is entered, newPage is called
LaunchOk(c) ==
  /\ call[c].pc = "launch"
  /\ call' = [call EXCEPT ![c] = [@ EXCEPT !.pc = "newPage", !.browser = "open"]]
  /\ UNCHANGED <<file, ens, req, process>>

\* line 53: launch rejects, outside the try block: no browser, no close
LaunchFail(c) ==
  /\ call[c].pc = "launch"
  /\ call' = [call EXCEPT ![c] =
                [@ EXCEPT !.pc = "done", !.result = Err("launch failed", <<>>)]]
  /\ UNCHANGED <<file, ens, req, process>>

\* (mutant) a failed session is retried: the browser is launched again
FinallyRetries(cr, out) ==
  IF out.kind = "err" /\ cr.closeCalls = 0
    THEN [cr EXCEPT !.pc = "launch", !.browser = "closed", !.closeCalls = @ + 1]
    ELSE [cr EXCEPT !.pc = "close", !.browser = "closing", !.closeCalls = @ + 1,
                    !.pending = out]

\* (mutant) the browser is closed on return only, not on a throw
FinallyOnReturnOnly(cr, out) ==
  IF out.kind = "ok"
    THEN [cr EXCEPT !.pc = "close", !.browser = "closing", !.closeCalls = @ + 1,
                    !.pending = out]
    ELSE [cr EXCEPT !.pc = "done", !.result = out]

\* line 181-183: an exit of the try block, by return or throw, runs the
\* finally block, which calls browser.close() and awaits it
Finally(cr, out) ==
  [cr EXCEPT !.pc = "close", !.browser = "closing", !.closeCalls = @ + 1,
             !.pending = out]

\* line 182: close has resolved; the call settles with the pending outcome
CloseDone(c) ==
  /\ call[c].pc = "close"
  /\ call' = [call EXCEPT ![c] =
                [@ EXCEPT !.pc = "done", !.browser = "closed",
                          !.result = call[c].pending]]
  /\ UNCHANGED <<file, ens, req, process>>

(***************************************************************************)
(* Request interception (line 61-78).  req[c] lists the requests the page  *)
(* of call c has issued, the navigation request first.                     *)
(***************************************************************************)
NavUrl == "https://www.draw.io/export3.html"

OtherUrl == "https://app.diagrams.net/styles/grapheditor.css"

\* the sub-resource requests a page may issue
SubUrls == Urls \cup {OtherUrl}

\* line 62-78: the 'request' handler, up to its readFile or continue
OnRequest(url) ==
  LET t == cacheDictGet(url)
  IN IF t # "undefined"
       THEN [url |-> url, t |-> t, state |-> "reading", body |-> <<>>, lost |-> FALSE]
       ELSE [url |-> url, t |-> t, state |-> "continued", body |-> <<>>, lost |-> FALSE]

\* (mutant) an unreadable file lets the request through to the network
OnReadFileContinue(r, err, res) ==
  IF err THEN [r EXCEPT !.state = "continued"]
  ELSE [r EXCEPT !.state = "responded", !.body = res]

\* line 65-74: the readFile callback
OnReadFile(r, err, res) ==
  IF err THEN [r EXCEPT !.state = "aborted"]
  ELSE [r EXCEPT !.state = "responded", !.body = res]

\* line 80: page.goto issues the navigation request, which is intercepted
GotoRequest(c) ==
  /\ call[c].pc = "goto"
  /\ req[c] = <<>>
  /\ req' = [req EXCEPT ![c] = <<OnRequest(NavUrl)>>]
  /\ UNCHANGED <<file, ens, call, process>>

\* the loaded page requests a sub-resource, which is intercepted
Intercept(c, url) ==
  /\ call[c].hook
  /\ call[c].browser = "open"
  /\ req[c] # <<>>
  /\ Len(req[c]) < MaxRequests + 1
  /\ req' = [req EXCEPT ![c] = Append(@, OnRequest(url))]
  /\ UNCHANGED <<file, ens, call, process>>

\* line 65: fs.readFile calls back: an error when the file is missing or
\* cannot be read, else the file's bytes; the answer is lost when the
\* browser is gone by then
ReadFileDone(c, k, err) ==
  /\ k \in DOMAIN req[c]
  /\ req[c][k].state = "reading"
  /\ ~file[req[c][k].t].exists => err
  /\ req' = [req EXCEPT ![c][k] =
               [OnReadFile(@, err, file[req[c][k].t].data)
                  EXCEPT !.lost = (call[c].browser # "open")]]
  /\ UNCHANGED <<file, ens, call, process>>

(***************************************************************************)
(* The session: line 60-83.                                                *)
(***************************************************************************)
\* line 60 -> 61
NewPageOk(c) ==
  /\ call[c].pc = "newPage"
  /\ call' = [call EXCEPT ![c] = [@ EXCEPT !.pc = "interception"]]
  /\ UNCHANGED <<file, ens, req, process>>

\* line 61 -> 80: the handler is registered and page.goto is called
SetInterceptionOk(c) ==
  /\ call[c].pc = "interception"
  /\ call' = [call EXCEPT ![c] = [@ EXCEPT !.pc = "goto", !.hook = TRUE]]
  /\ UNCHANGED <<file, ens, req, process>>

\* (mutant) page.goto resolves without waiting for the navigation
GotoDoneAtOnce(c) ==
  /\ call[c].pc = "goto"
  /\ call' = [call EXCEPT ![c] = [@ EXCEPT !.pc = "parse"]]
  /\ UNCHANGED <<file, ens, req, process>>

\* line 80 -> 82: network idle after a navigation that was answered
GotoDone(c) ==
  /\ call[c].pc = "goto"
  /\ req[c] # <<>>
  /\ req[c][1].state \in {"continued", "responded"}
  /\ \A k \in DOMAIN req[c] : req[c][k].state # "reading"
  /\ call' = [call EXCEPT ![c] = [@ EXCEPT !.pc = "parse"]]
  /\ UNCHANGED <<file, ens, req, process>>

\* line 82 -> 83: doc = mxUtils.parseXml(fullXml)
ParseOk(c) ==
  /\ call[c].pc = "parse"
  /\ call' = [call EXCEPT ![c] =
                [@ EXCEPT !.pc = "pages", !.injected = TRUE, !.kids = call[c].xml.kids]]
  /\ UNCHANGED <<file, ens, req, process>>

(***************************************************************************)
(* gen (line 85-136) and the dispatch on the format (line 138-179).        *)
(***************************************************************************)
\* (mutant) the loop also ends at the last child, whatever it is
RECURSIVE FirstElemOrLast(_, _)
FirstElemOrLast(kids, j) ==
  IF j > Len(kids) THEN 0
  ELSE IF kids[j] > 0 \/ j = Len(kids) THEN j
  ELSE FirstElemOrLast(kids, j + 1)

\* line 88-93: the index of the first element child, 0 when there is none
RECURSIVE FirstElem(_, _)
FirstElem(kids, j) ==
  IF j > Len(kids) THEN 0
  ELSE IF kids[j] > 0 THEN j
  ELSE FirstElem(kids, j + 1)

\* (mutant) the nodes are copied, not moved out of doc
PeelKeep(kids) ==
  LET j == FirstElem(kids, 1)
  IN IF j = 0 THEN [ok |-> FALSE, sub |-> kids, rest |-> <<>>]
     ELSE [ok |-> TRUE, sub |-> SubSeq(kids, 1, j), rest |-> kids]

\* (mutant) only the first node ahead of the page element is taken along
PeelOneLeading(kids) ==
  LET j == FirstElem(kids, 1)
  IN IF j = 0 THEN [ok |-> FALSE, sub |-> kids, rest |-> <<>>]
     ELSE [ok |-> TRUE,
           sub |-> IF j = 1 THEN <<kids[1]>> ELSE <<kids[1], kids[j]>>,
           rest |-> SubSeq(kids, j + 1, Len(kids))]

\* line 87-93: dup.appendChild(n) moves n out of doc
Peel(kids) ==
  LET j == FirstElem(kids, 1)
  IN IF j = 0 THEN [ok |-> FALSE, sub |-> kids, rest |-> <<>>]
     ELSE [ok |-> TRUE, sub |-> SubSeq(kids, 1, j),
           rest |-> SubSeq(kids, j + 1, Len(kids))]

NewPass == [sub |-> <<>>, page |-> -1, status |-> "run"]

\* gen(core) is called: page.evaluate of line 86 is issued
StartGen(cr) ==
  [cr EXCEPT !.pc = "genEval", !.passes = Append(@, NewPass)]

PassEnds(cr, st) ==
  [cr EXCEPT !.passes = [@ EXCEPT ![Len(@)] = [@ EXCEPT !.status = st]]]

\* line 158, 163: the loop test, then the next pass or merger.save()
LoopNext(cr) ==
  IF LoopLess(cr.i, cr.pages) THEN StartGen(cr)
  ELSE [cr EXCEPT !.pc = "save"]

\* (mutant) a format without prefix renders every page
CaseUndefinedAllPages(cr, core) ==
  LoopNext([cr EXCEPT !.mode = "loop", !.core = core, !.mergerNew = TRUE, !.i = 0])

\* line 146-148, case undefined: return await gen(core)
CaseUndefined(cr, core) == StartGen([cr EXCEPT !.mode = "single", !.core = core])

\* (mutant) cat- merges whatever the page count is
CaseCatAlwaysMerges(cr, core) ==
  IF core # PDF THEN Finally(cr, Err("Format not allowed", <<>>))
  ELSE LoopNext([cr EXCEPT !.mode = "loop", !.core = core,
                           !.mergerNew = TRUE, !.i = 0])

\* (mutant) cat- does not test the core
CaseCatAnyCore(cr, core) ==
  IF cr.pages = Num(1)
    THEN StartGen([cr EXCEPT !.mode = "single", !.core = core])
  ELSE LoopNext([cr EXCEPT !.mode = "loop", !.core = core,
                           !.mergerNew = TRUE, !.i = 0])

\* line 149-165, case 'cat-'
CaseCat(cr, core) ==
  IF core # PDF THEN Finally(cr, Err("Format not allowed", <<>>))
  ELSE IF cr.pages = Num(1)
    THEN StartGen([cr EXCEPT !.mode = "single", !.core = core])
  ELSE LoopNext([cr EXCEPT !.mode = "loop", !.core = core,
                           !.mergerNew = TRUE, !.i = 0])

\* line 138-179, entered once pages is known
Dispatch(cr) ==
  LET m == FormatMatch(cr.format)
  IN IF ~m.matched THEN Finally(cr, Err("Invalid format", cr.format))
     ELSE IF ~m.hasPrefix THEN CaseUndefined(cr, m.core)
     ELSE IF m.prefix = CAT THEN CaseCat(cr, m.core)
     ELSE IF m.prefix \in {SPLIT, SPLIT_INDEX, SPLIT_ID, SPLIT_NAME}
       THEN Finally(cr, Err("Split formats not supported in API mode", <<>>))
     ELSE Finally(cr, Err("Format prefix not allowed", m.prefix))

\* line 83 -> 138..: pages is read, the format is matched and dispatched
PagesOk(c) ==
  /\ call[c].pc = "pages"
  /\ call' = [call EXCEPT ![c] = Dispatch([@ EXCEPT !.pages = pagesOf(call[c].xml.attr)])]
  /\ UNCHANGED <<file, ens, req, process>>

\* (mutant) a failed pass ends the loop with what was merged so far
GenFailsPartial(cr, e) ==
  LET f == PassEnds(cr, "failed")
  IN IF cr.mode = "loop" THEN Finally(f, Ok(PDF, cr.merger)) ELSE Finally(f, e)

\* a pass fails: gen throws, the try block is left
GenFails(cr, e) == Finally(PassEnds(cr, "failed"), e)

\* line 86-103 -> 105: the page has built the sub-document and called render
GenEvalDone(c) ==
  /\ call[c].pc = "genEval"
  /\ LET p == Peel(call[c].kids)
     IN call' = [call EXCEPT ![c] =
          IF p.ok
            THEN [@ EXCEPT !.pc = "waitSel", !.kids = p.rest,
                           !.passes = [@ EXCEPT ![Len(@)] =
                              [@ EXCEPT !.sub = p.sub, !.page = p.sub[Len(p.sub)] - 1]]]
            ELSE GenFails([@ EXCEPT !.kids = p.rest],
                          Err("evaluate failed: appendChild(null)", <<>>))]
  /\ UNCHANGED <<file, ens, req, process>>

\* line 105 -> 106
WaitSelOk(c) ==
  /\ call[c].pc = "waitSel"
  /\ call' = [call EXCEPT ![c] = [@ EXCEPT !.pc = "bounds"]]
  /\ UNCHANGED <<file, ens, req, process>>

\* line 106-115/124: bounds are read and parsed, setViewport is called
BoundsOk(c) ==
  /\ call[c].pc = "bounds"
  /\ call' = [call EXCEPT ![c] = [@ EXCEPT !.pc = "viewport"]]
  /\ UNCHANGED <<file, ens, req, process>>

\* line 115 -> 116, 124 -> 125: screenshot or pdf is called
ViewportOk(c) ==
  /\ call[c].pc = "viewport"
  /\ call' = [call EXCEPT ![c] = [@ EXCEPT !.pc = "capture"]]
  /\ UNCHANGED <<file, ens, req, process>>

\* merger.add(buffer)
MergerAdd(m, buffer) == m \o buffer

\* gen has returned its artifact to line 147, 154 or 159
GenReturn(cr, buffer) ==
  IF cr.mode = "single" THEN Finally(cr, Ok(cr.core, buffer))
  ELSE LoopNext([cr EXCEPT !.buffers = Append(@, buffer),
                           !.merger = MergerAdd(@, buffer), !.i = @ + 1])

\* line 116-121, 125-131: the capture is taken and gen returns
CaptureOk(c) ==
  /\ call[c].pc = "capture"
  /\ LET cr == PassEnds(call[c], "ok")
     IN call' = [call EXCEPT ![c] = GenReturn(cr, <<cr.passes[Len(cr.passes)].page>>)]
  /\ UNCHANGED <<file, ens, req, process>>

\* line 163-164: the merged document is returned
SaveOk(c) ==
  /\ call[c].pc = "save"
  /\ call' = [call EXCEPT ![c] = Finally([@ EXCEPT !.saved = TRUE], Ok(PDF, @.merger))]
  /\ UNCHANGED <<file, ens, req, process>>

\* an awaited browser operation of the try block rejects
GenPcs == {"genEval", "waitSel", "bounds", "viewport", "capture"}

TryPcs == {"newPage", "interception", "goto", "parse", "pages", "save"} \cup GenPcs

AwaitRejects(c) ==
  /\ call[c].pc \in TryPcs
  /\ call' = [call EXCEPT ![c] =
       IF @.pc \in GenPcs THEN GenFails(@, Err("render failed", <<>>))
       ELSE Finally(@, Err("session failed", <<>>))]
  /\ UNCHANGED <<file, ens, req, process>>

(***************************************************************************)
(* The specification.                                                      *)
(***************************************************************************)
(***************************************************************************)
(* The server (api.js).  http[c] is the request that invocation c of a     *)
(* route serves: the request, the response once it is sent.                *)
(***************************************************************************)
Methods == {"GET", "POST"}
Paths == {"/health", "/api/docs", "/api/export", "/api/export/base64", "/other"}

\* a key carrier, the X-API-Key header or the apiKey query parameter:
\* absent, empty, or a key
KeyValues == {EnvUnset, EnvVal(""), EnvVal(DefaultKey), EnvVal("s3cret")}

\* req.body.xml: absent, the empty string, or the text of a document
NoDoc == [attr |-> AttrAbsent, kids |-> <<>>]
XmlAbsent == [k |-> "undefined", doc |-> NoDoc]
XmlEmpty == [k |-> "empty", doc |-> NoDoc]
XmlString(d) == [k |-> "string", doc |-> d]
\* an xml that is present and not a string, with the document the page's
\* parser makes of it: none for a number, the diagram itself for an array
\* of one string
XmlOther(d) == [k |-> "other", doc |-> d]
XmlValues ==
  {XmlAbsent, XmlEmpty, XmlString(WellFormedDoc(1)), XmlString(WellFormedDoc(2)),
   XmlOther(NoDoc), XmlOther(WellFormedDoc(1))}

\* req.body.format: absent, or a string
FormatAbsent == [set |-> FALSE, val |-> <<>>]
FormatString(f) == [set |-> TRUE, val |-> f]
FormatValues ==
  {FormatAbsent} \cup {FormatString(f) : f \in {PNG, PDF, CAT \o PDF, <<"b", "m", "p">>}}

\* req.body as express.json (line 13) leaves it: the parsed object, {} when
\* the request has no body, or no body at all when the JSON does not parse
EmptyBody == [format |-> FormatAbsent, xml |-> XmlAbsent, parsed |-> TRUE]
MalformedBody == [format |-> FormatAbsent, xml |-> XmlAbsent, parsed |-> FALSE]
Bodies == [format : FormatValues, xml : XmlValues, parsed : {TRUE}] \cup {MalformedBody}

\* the requests clients send; a GET carries no body
Requests ==
  {rq \in [body : Bodies, method : Methods, path : Paths, hkey : KeyValues,
           qkey : KeyValues] : rq.method = "GET" => rq.body = EmptyBody}

\* the bytes of a buffer exportDiagram resolves with: what the browser
\* produced, never empty
ByteValues == {0, 77, 255}
RECURSIVE SeqsOf(_, _)
SeqsOf(S, n) ==
  IF n = 0 THEN {<<>>}
  ELSE LET shorter == SeqsOf(S, n - 1)
       IN shorter \cup {Append(q, x) : q \in {r \in shorter : Len(r) = n - 1}, x \in S}
Buffers == SeqsOf(ByteValues, MaxBytes) \ {<<>>}

\* Buffer.prototype.toString('base64'): the alphabet of RFC 4648
Base64Alphabet ==
  <<"A","B","C","D","E","F","G","H","I","J","K","L","M","N","O","P",
    "Q","R","S","T","U","V","W","X","Y","Z","a","b","c","d","e","f",
    "g","h","i","j","k","l","m","n","o","p","q","r","s","t","u","v",
    "w","x","y","z","0","1","2","3","4","5","6","7","8","9","+","/">>
Base64Char(n) == Base64Alphabet[n + 1]

\* (mutant) the encoding without the padding of the last group
RECURSIVE toBase64NoPadding(_)
toBase64NoPadding(b) ==
  IF Len(b) = 0 THEN <<>>
  ELSE IF Len(b) = 1
    THEN <<Base64Char(b[1] \div 4), Base64Char((b[1] % 4) * 16)>>
  ELSE IF Len(b) = 2
    THEN <<Base64Char(b[1] \div 4),
           Base64Char((b[1] % 4) * 16 + b[2] \div 16),
           Base64Char((b[2] % 16) * 4)>>
  ELSE <<Base64Char(b[1] \div 4),
         Base64Char((b[1] % 4) * 16 + b[2] \div 16),
         Base64Char((b[2] % 16) * 4 + b[3] \div 64),
         Base64Char(b[3] % 64)>> \o toBase64NoPadding(SubSeq(b, 4, Len(b)))

\* line 109: buffer.toString('base64'), three bytes to four characters, the
\* last group padded with '='
RECURSIVE toBase64(_)
toBase64(b) ==
  IF Len(b) = 0 THEN <<>>
  ELSE IF Len(b) = 1
    THEN <<Base64Char(b[1] \div 4), Base64Char((b[1] % 4) * 16), "=", "=">>
  ELSE IF Len(b) = 2
    THEN <<Base64Char(b[1] \div 4),
           Base64Char((b[1] % 4) * 16 + b[2] \div 16),
           Base64Char((b[2] % 16) * 4), "=">>
  ELSE <<Base64Char(b[1] \div 4),
         Base64Char((b[1] % 4) * 16 + b[2] \div 16),
         Base64Char((b[2] % 16) * 4 + b[3] \div 64),
         Base64Char(b[3] % 64)>> \o toBase64(SubSeq(b, 4, Len(b)))

\* the characters of a string joined into the string
RECURSIVE Join(_)
Join(cs) == IF cs = <<>> THEN "" ELSE Head(cs) \o Join(Tail(cs))

\* a response: the status, the Content-Type, the fields of a base64 answer
\* (format, mimeType, data, dataUrl, size), the artifact exportDiagram
\* resolved with and its bytes
FullResponse(st, ct, f, mt, d, url, sz, art, buf) ==
  [data |-> d, format |-> f, status |-> st, buffer |-> buf, contentType |-> ct,
   mimeType |-> mt, dataUrl |-> url, size |-> sz, artifact |-> art]
Response(st, ct, mt, art) == FullResponse(st, ct, <<>>, mt, <<>>, "", 0, art, <<>>)

\* line 116: `data:${mimeType};base64,${base64}`
dataUrlOf(mt, data) == "data:" \o mt \o ";base64," \o Join(data)
Json(st) == Response(st, "application/json", "", NoOutcome)
NoResponse == Response(0, "", "", NoOutcome)

\* no request has arrived
IdleHttp == [state |-> "idle"]

\* (mutant) any key that is present is let through
validateApiKeyAnyKey(rq, key) ==
  LET apiKey == IF Truthy(rq.hkey) THEN rq.hkey ELSE rq.qkey
  IN IF ~Truthy(apiKey) THEN 401 ELSE 0

\* line 22-40: req.headers['x-api-key'] || req.query.apiKey against API_KEY;
\* the status sent, or 0 for next()
validateApiKey(rq, key) ==
  LET apiKey == IF Truthy(rq.hkey) THEN rq.hkey ELSE rq.qkey
  IN IF ~Truthy(apiKey) THEN 401
     ELSE IF apiKey.val # key THEN 403
     ELSE 0

\* (mutant) only a missing xml is refused, an empty one is not
XmlCheckAbsentOnly(rq) ==
  IF rq.body.xml.k = "undefined" THEN 400
  ELSE IF rq.path = "/api/export" /\ rq.body.xml.k \notin {"string", "empty"} THEN 400
  ELSE 0

\* line 54-68, 95-102: the checks on xml; the status sent, or 0 to go on
XmlCheck(rq) ==
  IF rq.body.xml.k \in {"undefined", "empty"} THEN 400
  ELSE IF rq.path = "/api/export" /\ rq.body.xml.k # "string" THEN 400
  ELSE 0

\* line 54, 95: format = 'png' when the body has none
formatOf(body) == IF body.format.set THEN body.format.val ELSE PNG

\* line 13, 43-49, 52, 93, 130, 193-208: the middleware and the routes a
\* request goes through; the status answered at once, or 0 when the export
\* handler calls exportDiagram
Route(rq, key) ==
  IF ~rq.body.parsed THEN 500
  ELSE IF rq.method = "GET" /\ rq.path \in {"/health", "/api/docs"} THEN 200
  ELSE IF rq.method = "POST" /\ rq.path \in {"/api/export", "/api/export/base64"}
    THEN IF validateApiKey(rq, key) # 0 THEN validateApiKey(rq, key)
         ELSE XmlCheck(rq)
  ELSE 404

\* a request arrives and runs up to its response or to the first await of
\* its handler, inside exportDiagram
Receive(c, rq) ==
  /\ http[c].state = "idle"
  /\ IF Route(rq, API_KEY) = 0
       THEN /\ exportDiagram(c, formatOf(rq.body), rq.body.xml.doc)
            /\ http' = [http EXCEPT ![c] = [state |-> "exporting", res |-> NoResponse, rq |-> rq]]
       ELSE /\ http' = [http EXCEPT ![c] =
                         [state |-> "responded", res |-> Json(Route(rq, API_KEY)), rq |-> rq]]
            /\ UNCHANGED <<file, ens, call, req>>
  /\ UNCHANGED <<env, cachePath, API_KEY>>

\* line 74-75, 107: format === 'pdf' ? 'application/pdf' : 'image/png'
mimeTypeOf(f) == IF f = PDF THEN "application/pdf" ELSE "image/png"

\* line 72-80, 105-117 and the catch blocks: exportDiagram has settled
Respond(c) ==
  /\ http[c].state = "exporting"
  /\ call[c].pc = "done"
  /\ \E buffer \in IF call[c].result.kind = "ok" THEN Buffers ELSE {<<>>} :
       LET rq == http[c].rq
           format == formatOf(rq.body)
           mt == mimeTypeOf(format)
           base64 == toBase64(buffer)
           res == IF call[c].result.kind # "ok" THEN Json(500)
                  ELSE IF rq.path = "/api/export"
                    THEN FullResponse(200, mt, <<>>, "", <<>>, "", Len(buffer),
                                      call[c].result, buffer)
                  ELSE FullResponse(200, "application/json", format, mt, base64,
                                    dataUrlOf(mt, base64), Len(buffer),
                                    call[c].result, buffer)
       IN http' = [http EXCEPT ![c] = [@ EXCEPT !.state = "responded", !.res = res]]
  /\ UNCHANGED <<file, ens, call, req, env, cachePath, API_KEY>>

\* the exchange is over; the next request is served by a fresh invocation
NextRequest(c) ==
  /\ http[c].state = "responded"
  /\ http' = [http EXCEPT ![c] = IdleHttp]
  /\ call' = [call EXCEPT ![c] = IdleCall]
  /\ ens' = [ens EXCEPT ![c] = [t \in Names |-> IdleEnsure]]
  /\ req' = [req EXCEPT ![c] = <<>>]
  /\ UNCHANGED <<file, env, cachePath, API_KEY>>

\* no render call has been made; the cache directory is cold or warm
InitRender ==
  /\ file \in [Names -> {AbsentFile, CompleteFile}]
  /\ ens = [c \in Calls |-> [t \in Names |-> IdleEnsure]]
  /\ call = [c \in Calls |-> IdleCall]
  /\ req = [c \in Calls |-> <<>>]
  /\ http = [c \in Calls |-> IdleHttp]

Init ==
  /\ InitRender
  /\ LoadModules(HostEnv)


\* the ensures of call c: cache(f, t) of every manifest entry
CacheStep(c) ==
  \E t \in Names :
    \/ CacheExists(c, t)
    \/ AxiosGetOk(c, t)
    \/ AxiosGetFail(c, t)
    \/ WriteStreamOpen(c, t)
    \/ StreamData(c, t)
    \/ WriteChunk(c, t)
    \/ StreamEnd(c, t)
    \/ StreamError(c, t)

\* the session of call c up to the first render pass
LoadStep(c) ==
  \/ EnsureAllDone(c)
  \/ EnsureAllFailed(c)
  \/ LaunchOk(c)
  \/ NewPageOk(c)
  \/ SetInterceptionOk(c)
  \/ GotoRequest(c)
  \/ GotoDone(c)
  \/ ParseOk(c)
  \/ PagesOk(c)

\* a render pass of call c, and the end of the call
GenStep(c) ==
  \/ GenEvalDone(c)
  \/ WaitSelOk(c)
  \/ BoundsOk(c)
  \/ ViewportOk(c)
  \/ CaptureOk(c)
  \/ CloseDone(c)

\* the browser fails call c
BrowserFails(c) ==
  \/ LaunchFail(c)
  \/ AwaitRejects(c)

\* the page of call c requests sub-resources
PageRequests(c) ==
  \/ \E url \in SubUrls : Intercept(c, url)
  \/ \E k \in 1..(MaxRequests + 1), err \in BOOLEAN : ReadFileDone(c, k, err)

\* one render call, of any format on any document, on a cache that starts
\* cold or warm
Next ==
  \/ \E f \in Formats, d \in Docs : Invoke("r1", f, d)
  \/ CacheStep("r1")
  \/ LoadStep("r1")
  \/ GenStep("r1")
  \/ SaveOk("r1")
  \/ BrowserFails("r1")
  \/ PageRequests("r1")

Spec == Init /\ [][Next]_vars

\* two render calls of a one-page document as png that may overlap, with a
\* browser that does not fail and a page that requests nothing but the
\* navigation
NextOverlap ==
  \E c \in Calls :
    \/ Invoke(c, PNG, WellFormedDoc(1))
    \/ CacheStep(c)
    \/ LoadStep(c)
    \/ GenStep(c)

SpecOverlap == Init /\ [][NextOverlap]_vars

\* every asset is cached: no call fetches
InitWarm ==
  /\ Init
  /\ \A t \in Names : file[t] = CompleteFile

\* the session of call c on a warm cache, with a page that requests nothing
\* but the navigation
WarmStep(c) ==
  \/ \E t \in Names : CacheExists(c, t)
  \/ EnsureAllDone(c)
  \/ LaunchOk(c)
  \/ NewPageOk(c)
  \/ SetInterceptionOk(c)
  \/ GotoRequest(c)
  \/ GotoDone(c)
  \/ ParseOk(c)
  \/ PagesOk(c)
  \/ GenStep(c)
  \/ BrowserFails(c)

\* the documents whose page count (line 83) is 1: one diagram with or
\* without the pages attribute, and two diagrams declared as one page
OnePageDocs ==
  {d \in Docs \cup {[attr |-> AttrInt(1), kids |-> PageElems(2)]} :
     pagesOf(d.attr) = Num(1)}

\* two concurrent render calls of one document of page count 1, r1 as pdf
\* and r2 as cat-pdf, on a warm cache
NextPair ==
  \/ \E d \in OnePageDocs :
       /\ call["r2"].pc # "idle" => call["r2"].xml = d
       /\ Invoke("r1", PDF, d)
  \/ \E d \in OnePageDocs :
       /\ call["r1"].pc # "idle" => call["r1"].xml = d
       /\ Invoke("r2", CAT \o PDF, d)
  \/ \E c \in Calls : WarmStep(c)

SpecPair == InitWarm /\ [][NextPair]_vars

\* one render call on a warm cache, as png or cat-pdf, of a document whose
\* pages attribute is anything, with a page that requests sub-resources
NextSession ==
  \/ \E f \in {PNG, CAT \o PDF}, d \in Docs \cup OddDocs : Invoke("r1", f, d)
  \/ WarmStep("r1")
  \/ SaveOk("r1")
  \/ PageRequests("r1")

SpecSession == InitWarm /\ [][NextSession]_vars

\* one render call on a warm cache, as png or cat-pdf, of a document whose
\* children are arranged in any way
NextShape ==
  \/ \E f \in {PNG, CAT \o PDF}, d \in ShapedDocs : Invoke("r1", f, d)
  \/ WarmStep("r1")
  \/ SaveOk("r1")

SpecShape == InitWarm /\ [][NextShape]_vars

\* the session with the file system's promise kept: a readFile that was
\* started calls back
SpecSessionFair ==
  /\ SpecSession
  /\ \A k \in 1..(MaxRequests + 1) :
       WF_vars(\E err \in BOOLEAN : ReadFileDone("r1", k, err))

\* one render call, of any of the format strings of FormatsAll on any
\* document, on a warm cache
NextFormat ==
  \/ \E f \in FormatsAll, d \in Docs : Invoke("r1", f, d)
  \/ WarmStep("r1")
  \/ SaveOk("r1")

SpecFormat == InitWarm /\ [][NextFormat]_vars

\* a process started in any environment, which it changes after the
\* modules are loaded
InitEnv ==
  /\ InitRender
  /\ \E e \in Envs : LoadModules(e)

NextEnv == \E x \in DOMAIN EnvValues : \E v \in EnvValues[x] : SetEnv(x, v)

SpecEnv == InitEnv /\ [][NextEnv]_vars

\* the server, started with or without API_KEY in its environment, serves
\* one request after the other on a warm cache
InitApi ==
  /\ InitRender
  /\ \A t \in Names : file[t] = CompleteFile
  /\ \E k \in EnvValues.API_KEY : LoadModules([HostEnv EXCEPT !.API_KEY = k])

NextApi ==
  \/ \E rq \in Requests : Receive("r1", rq)
  \/ WarmStep("r1")
  \/ SaveOk("r1")
  \/ Respond("r1")
  \/ NextRequest("r1")

SpecApi == InitApi /\ [][NextApi]_vars

(***************************************************************************)
(* The claims.                                                             *)
(***************************************************************************)
Launched(c) == call[c].browser # "none"

\* the ensures of call c that issued a fetch
Fetched(c) == {t \in Names : ens[c][t].sawAbsent}

NumElems(kids) == Cardinality({i \in DOMAIN kids : kids[i] > 0})

FormatErrors ==
  {"Invalid format", "Format not allowed",
   "Split formats not supported in API mode", "Format prefix not allowed"}

\* C1: a call that launched a browser calls close exactly once on every
\* exit path, and has closed the browser when it returns or throws
C1_BrowserClosedOnce ==
  \A c \in Calls :
    /\ call[c].closeCalls <= 1
    /\ call[c].browser \in {"none", "open"} => call[c].closeCalls = 0
    /\ call[c].browser \in {"closing", "closed"} => call[c].closeCalls = 1
    /\ (call[c].pc = "done" /\ Launched(c)) =>
         (call[c].browser = "closed" /\ call[c].closeCalls = 1)

C1_Witness ==
  \E c \in Calls :
    /\ call[c].pc = "done"
    /\ call[c].browser = "closed"
    /\ call[c].result.kind = "err"
    /\ Len(call[c].passes) > 0

\* C2: when a format string is rejected, the call has attempted no fetch
\* and has launched no browser
C2_RejectedBeforeWork ==
  \A c \in Calls :
    (call[c].pending.msg \in FormatErrors \/ call[c].result.msg \in FormatErrors) =>
      (~Launched(c) /\ Fetched(c) = {})

C4_OneCompleteCopy ==
  \A t \in Names :
    /\ Cardinality({c \in Calls : ens[c][t].ws = "open"}) <= 1
    /\ (\A c \in Calls : ens[c][t].sawAbsent /\ ens[c][t].pc = "resolved") =>
         file[t] = CompleteFile

\* C5: a resource is fetched at most once, and only after an existence
\* check
C5_FetchedAtMostOnce ==
  \A t \in Names :
    /\ Cardinality({c \in Calls : ens[c][t].sawAbsent}) <= 1
    /\ \A c \in Calls :
         (ens[c][t].pc \in {"get", "stream"} \/ ens[c][t].ws # "none") =>
           ens[c][t].sawAbsent

\* C6: an ensure that has returned successfully leaves a completely
\* written file, and a call launches its browser on complete files only
C6_ReturnsComplete ==
  \A c \in Calls : \A t \in Names :
    ens[c][t].pc = "resolved" => file[t] = CompleteFile

\* C7: an ensure that finds the file present resolves without a fetch or
\* a write stream and leaves the file as it is
C7_PresentIsNoOp ==
  /\ [](\A c \in Calls : \A t \in Names :
          (ens[c][t].pc = "resolved" /\ ~ens[c][t].sawAbsent) =>
            (ens[c][t].ws = "none" /\ ens[c][t].recv = 0 /\ ens[c][t].written = 0))
  /\ [][\A c \in Calls : \A t \in Names :
          (ens[c][t].pc = "exists" /\ file[t].exists /\ ens'[c][t] # ens[c][t]) =>
            /\ ens'[c][t] = [ens[c][t] EXCEPT !.pc = "resolved"]
            /\ file' = file]_vars

C7_Witness ==
  \E c \in Calls : \E t \in Names :
    /\ ens[c][t].pc = "resolved"
    /\ ~ens[c][t].sawAbsent
    /\ file[t] = CompleteFile

\* C8: an intercepted request for a manifest URL is never continued; it
\* is answered with the bytes of the cached file, or aborted when the
\* file cannot be read
C8_ManifestNeverContinued ==
  /\ [](\A c \in Calls : \A k \in DOMAIN req[c] :
          req[c][k].url \in Urls => req[c][k].state \in {"reading", "responded", "aborted"})
  /\ [][\A c \in Calls : \A k \in DOMAIN req[c] :
          (req[c][k].state = "reading" /\ req'[c][k].state # "reading") =>
            \/ /\ req'[c][k].state = "responded"
               /\ file[req[c][k].t].exists
               /\ req'[c][k].body = file[req[c][k].t].data
            \/ req'[c][k].state = "aborted"]_vars

C8_Witness ==
  \E c \in Calls : \E k \in DOMAIN req[c] :
    /\ req[c][k].url \in Urls
    /\ req[c][k].state = "aborted"
    /\ ~req[c][k].lost

\* C9: cat-pdf on a document of N > 1 pages renders the pages one after
\* the other in the order 0..N-1, at most N of them, and a returned
\* document holds exactly the N pages in that order
C9_CatPdfInPageOrder ==
  \A c \in Calls :
    LET cr == call[c]
        n == cr.xml.attr.v
    IN (/\ cr.format = CAT \o PDF
        /\ cr.xml.attr.k = "int"
        /\ n > 1
        /\ NumElems(cr.xml.kids) = n) =>
         /\ Len(cr.passes) <= n
         /\ \A k \in DOMAIN cr.passes :
              /\ cr.passes[k].page \in {-1, k - 1}
              /\ k < Len(cr.passes) => cr.passes[k].status = "ok"
         /\ cr.pending.kind = "ok" =>
              /\ Len(cr.passes) = n
              /\ \A k \in DOMAIN cr.passes : cr.passes[k].status = "ok"
              /\ cr.pending.type = PDF
              /\ cr.pending.pages = [k \in 1..n |-> k - 1]
         /\ cr.result.kind = "ok" => cr.result = cr.pending

C9_Witness ==
  \E c \in Calls :
    /\ call[c].format = CAT \o PDF
    /\ call[c].pc = "done"
    /\ call[c].result.kind = "ok"
    /\ Len(call[c].passes) = MaxPages
    /\ call[c].result.pages = [k \in 1..MaxPages |-> k - 1]

\* C10: when a pass of a multi-page cat-pdf render fails, no later pass is
\* started, nothing is merged or returned, and the call fails with the
\* browser closed
C10_FailedPassFailsCall ==
  \A c \in Calls :
    LET cr == call[c]
    IN \A k \in DOMAIN cr.passes :
         (cr.mode = "loop" /\ cr.passes[k].status = "failed") =>
           /\ k = Len(cr.passes)
           /\ ~cr.saved
           /\ cr.pc \in {"close", "done"}
           /\ cr.pending.kind = "err"
           /\ cr.pc = "done" => (cr.result.kind = "err" /\ cr.browser = "closed")

C10_Witness ==
  \E c \in Calls :
    /\ call[c].mode = "loop"
    /\ call[c].pc = "done"
    /\ call[c].xml = WellFormedDoc(3)
    /\ Len(call[c].passes) = 2
    /\ call[c].passes[1].status = "ok"
    /\ call[c].passes[2].status = "failed"

\* the page of the first diagram of document d
FirstPage(d) ==
  LET i == CHOOSE i \in DOMAIN d.kids :
             d.kids[i] > 0 /\ \A j \in 1..(i - 1) : d.kids[j] = 0
  IN d.kids[i] - 1

\* C11: a call whose format is png or pdf, without modifier, starts exactly
\* one render pass once its document is loaded, whatever the page count is;
\* the pass renders the first page, nothing is merged, and the artifact the
\* call returns is the capture of that pass, in the format asked for.
C11_OnePassFirstPage ==
  \A c \in Calls :
    call[c].format \in {PNG, PDF} =>
      LET cr == call[c] IN
      /\ Len(cr.passes) <= 1
      /\ ~cr.mergerNew /\ ~cr.saved /\ cr.merger = <<>>
      /\ (cr.pc \in GenPcs \/ cr.pending.kind = "ok") => Len(cr.passes) = 1
      /\ \A k \in DOMAIN cr.passes :
           cr.passes[k].sub # <<>> => cr.passes[k].page = FirstPage(cr.xml)
      /\ cr.pending.kind = "ok" =>
           /\ cr.passes[1].status = "ok"
           /\ cr.pending = Ok(cr.format, <<FirstPage(cr.xml)>>)
      /\ cr.result.kind = "ok" => cr.result = Ok(cr.format, <<FirstPage(cr.xml)>>)

\* a pdf call on a three-page document has returned its artifact
C11_Witness ==
  /\ call["r1"].format = PDF
  /\ call["r1"].xml = WellFormedDoc(3)
  /\ call["r1"].pc = "done"
  /\ call["r1"].result = Ok(PDF, <<0>>)
  /\ Len(call["r1"].passes) = 1

\* the call has met no failure so far
Unfailed(cr) == cr.pending.kind # "err" /\ cr.result.kind # "err"

\* C12: on a document whose page count is 1, a cat-pdf call goes through the
\* same session states as a pdf call of the same document, step for step
\* (one render pass, one capture, no merger, nothing saved), and returns the
\* same artifact.
C12_CatPdfOnePageAsPdf ==
  LET a == call["r1"]
      b == call["r2"]
  IN /\ (a.pc = b.pc /\ a.pc # "idle" /\ Unfailed(a) /\ Unfailed(b)) =>
          [b EXCEPT !.format = a.format] = a
     /\ b.pc # "idle" =>
          /\ b.pages \in {NaN, Num(1)}
          /\ Len(b.passes) <= 1
          /\ ~b.mergerNew /\ ~b.saved /\ b.merger = <<>>
          /\ b.result.kind = "ok" => b.result = Ok(PDF, <<FirstPage(b.xml)>>)

\* both calls have returned, the cat-pdf call after one pass
C12_Witness ==
  /\ call["r1"].format = PDF /\ call["r2"].format = CAT \o PDF
  /\ call["r1"].pc = "done" /\ call["r2"].pc = "done"
  /\ call["r2"].pages = Num(1)
  /\ Len(call["r2"].passes) = 1
  /\ call["r2"].result.kind = "ok"
  /\ call["r2"].result = call["r1"].result

\* the errors of the steps before and around the dispatch on the format: a
\* fetch, the launch, a session or render step
StepErrors ==
  {AxiosError, Undefined, "launch failed", "session failed", "render failed",
   "evaluate failed: appendChild(null)"}

\* the call is over (the finally block is running or has run) and no step
\* of its session failed: its outcome is the one the dispatch decided
Decided(cr) ==
  /\ cr.pc \in {"close", "done"}
  /\ cr.pending.msg \notin StepErrors
  /\ cr.result.msg \notin StepErrors

\* the outcome a call that is over ends with
Outcome(cr) == IF cr.pc = "done" THEN cr.result ELSE cr.pending

Cores == {PNG, PDF}
Modifiers == {CAT, SPLIT, SPLIT_INDEX, SPLIT_ID, SPLIT_NAME}
SplitModifiers == {SPLIT, SPLIT_INDEX, SPLIT_ID, SPLIT_NAME}

\* f is png or pdf behind a non-empty prefix; PrefixOf(f) is that prefix
HasCore(f) == Len(f) > 3 /\ SubSeq(f, Len(f) - 2, Len(f)) \in Cores
PrefixOf(f) == SubSeq(f, 1, Len(f) - 3)

\* C13: a call whose format is one of the four split modifiers followed by
\* png or pdf fails with the split error and has done no rendering work for
\* it: no browser was launched, no page loaded, no pass started.
C13_SplitFailsWithoutWork ==
  \A c \in Calls :
    (HasCore(call[c].format) /\ PrefixOf(call[c].format) \in SplitModifiers) =>
      /\ ~Launched(c)
      /\ ~call[c].injected
      /\ call[c].passes = <<>>
      /\ Decided(call[c]) =>
           Outcome(call[c]) = Err("Split formats not supported in API mode", <<>>)

\* C14: a cat-png call never starts a render pass and never yields an
\* artifact, whatever the document is; the error the dispatch ends it with
\* is the one of an unsupported format ('Format not allowed').
C14_CatPngRejected ==
  \A c \in Calls :
    call[c].format = CAT \o PNG =>
      LET cr == call[c] IN
      /\ cr.passes = <<>> /\ cr.mode = "none"
      /\ ~cr.mergerNew /\ ~cr.saved
      /\ cr.pending.kind # "ok" /\ cr.result.kind # "ok"
      /\ cr.pc = "done" => cr.result.kind = "err"
      /\ Decided(cr) => Outcome(cr) = Err("Format not allowed", <<>>)

\* a cat-png call on a two-page document has failed with 'Format not allowed'
C14_Witness ==
  /\ call["r1"].format = CAT \o PNG
  /\ call["r1"].xml = WellFormedDoc(2)
  /\ call["r1"].pc = "done"
  /\ call["r1"].result = Err("Format not allowed", <<>>)

\* f matches the grammar: png or pdf, alone or behind one of the modifiers
InGrammar(f) == f \in Cores \/ (HasCore(f) /\ PrefixOf(f) \in Modifiers)

\* C15 (as stated): a call whose format string does not match the grammar
\* (an optional modifier of the closed set, then png or pdf) fails with the
\* 'Invalid format' error that carries the string.
C15_OutsideGrammarInvalid ==
  \A c \in Calls :
    (~InGrammar(call[c].format) /\ Decided(call[c])) =>
      Outcome(call[c]) = Err("Invalid format", call[c].format)

\* f is png or pdf, alone or behind a prefix that ends in a dash
DashShaped(f) ==
  f \in Cores \/ (HasCore(f) /\ PrefixOf(f)[Len(PrefixOf(f))] = "-")

\* C15 (amended): a call whose format string is not png or pdf, alone or
\* behind a prefix that ends in a dash, never starts a render pass, never
\* yields an artifact, and fails with the 'Invalid format' error that
\* carries the string.
C15_UnparseableInvalid ==
  \A c \in Calls :
    (call[c].pc # "idle" /\ ~DashShaped(call[c].format)) =>
      LET cr == call[c] IN
      /\ cr.passes = <<>> /\ cr.mode = "none"
      /\ cr.pending.kind # "ok" /\ cr.result.kind # "ok"
      /\ cr.pc = "done" => cr.result.kind = "err"
      /\ Decided(cr) => Outcome(cr) = Err("Invalid format", cr.format)

\* a call with format xpng has failed with 'Invalid format: xpng'
C15_Witness ==
  /\ call["r1"].format = <<"x", "p", "n", "g">>
  /\ call["r1"].pc = "done"
  /\ call["r1"].result = Err("Invalid format", <<"x", "p", "n", "g">>)

\* C16: a call whose format is png or pdf behind a prefix that ends in a
\* dash and is none of cat-, split-, split-index-, split-id-, split-name-
\* fails with the 'Format prefix ... not allowed' error that names the
\* prefix, which is not the 'Invalid format' error.
C16_OtherPrefixNamed ==
  \A c \in Calls :
    LET f == call[c].format IN
    (HasCore(f) /\ PrefixOf(f)[Len(PrefixOf(f))] = "-"
       /\ PrefixOf(f) \notin Modifiers /\ Decided(call[c])) =>
      /\ Outcome(call[c]) = Err("Format prefix not allowed", PrefixOf(f))
      /\ Outcome(call[c]).msg # "Invalid format"

\* the life of a browser instance: not launched, up, closing, closed
BrowserAge(b) ==
  CASE b = "none" -> 0 [] b = "open" -> 1 [] b = "closing" -> 2 [] b = "closed" -> 3

\* the state that belongs to call c alone: its locals (browser, page, the
\* document inside the page), its page's requests and its ensures
Session(c) == <<call[c], req[c], ens[c]>>

\* C17: a call launches a browser at most once, at line 53, and never
\* launches again after that browser is up, closing or closed; no step
\* changes the browser, page, document, requests or ensures of two calls,
\* so that concurrent calls share nothing they can change but the cache
\* directory.
C17_OwnBrowserOnly ==
  [][ /\ \A c \in Calls :
           /\ BrowserAge(call'[c].browser) >= BrowserAge(call[c].browser)
           /\ (call[c].browser = "none" /\ call'[c].browser # "none") =>
                (call[c].pc = "launch" /\ call'[c].browser = "open")
           /\ Launched(c) => call'[c].pc # "launch"
      /\ \A c, d \in Calls :
           (c # d /\ Session(c)' # Session(c)) => Session(d)' = Session(d)
    ]_vars

\* two calls are in their sessions at once, each with its own browser up and
\* its own document loaded
C17_Witness ==
  /\ call["r1"].browser = "open" /\ call["r2"].browser = "open"
  /\ call["r1"].injected /\ call["r2"].injected
  /\ call["r1"].pc \in GenPcs /\ call["r2"].pc \in GenPcs

\* the variable is set: it holds a directory (an empty value names none and
\* counts as unset)
IsSet(v) == v.set /\ v.val # ""

\* C18: when the modules are loaded the cache directory is draw.io-export
\* under the directory of XDG_CACHE_HOME if that variable is set, else
\* .cache/draw.io-export under HOME if HOME is set, else .cache beside the
\* module, in each of the four set/unset combinations; afterwards the
\* resolved value never changes, whatever happens to the environment.
C18_CachePathResolvedOnce ==
  /\ LET xdg == env.XDG_CACHE_HOME
         home == env.HOME
     IN /\ (IsSet(xdg) /\ IsSet(home)) => cachePath = <<xdg.val, "draw.io-export">>
        /\ (IsSet(xdg) /\ ~IsSet(home)) => cachePath = <<xdg.val, "draw.io-export">>
        /\ (~IsSet(xdg) /\ IsSet(home)) =>
             cachePath = <<home.val, ".cache", "draw.io-export">>
        /\ (~IsSet(xdg) /\ ~IsSet(home)) => cachePath = <<Dirname, ".cache">>
  /\ [][cachePath' = cachePath]_vars

\* the process was started with XDG_CACHE_HOME and HOME set and has unset
\* both since: the cache directory is still the one under XDG_CACHE_HOME
C18_Witness ==
  /\ cachePath = <<"/xdg", "draw.io-export">>
  /\ env.XDG_CACHE_HOME = EnvUnset
  /\ env.HOME = EnvUnset

\* the keys a request carries, in the header or in the query
Carried(rq) == {k \in {rq.hkey, rq.qkey} : IsSet(k)}

\* the request is a POST to one of the two export routes
IsExport(rq) == rq.method = "POST" /\ rq.path \in {"/api/export", "/api/export/base64"}

\* C19: a POST to /api/export or /api/export/base64 that carries no key is
\* answered 401, one that carries only keys other than the configured key
\* is answered 403, and the export handler is reached only by a request
\* that carries the configured key; GET /health and GET /api/docs are
\* answered 200 whatever keys they carry.
C19_KeyGatesExport ==
  \A c \in Calls :
    LET h == http[c]
        rq == http[c].rq
    IN h.state # "idle" =>
         /\ (IsExport(rq) /\ Carried(rq) = {}) =>
              (h.state = "responded" /\ h.res.status = 401)
         /\ (IsExport(rq) /\ Carried(rq) # {} /\ EnvVal(API_KEY) \notin Carried(rq)) =>
              (h.state = "responded" /\ h.res.status = 403)
         /\ (IsExport(rq) /\ (h.state = "exporting" \/ h.res.status \in {200, 400})) =>
              EnvVal(API_KEY) \in Carried(rq)
         /\ (rq.method = "GET" /\ rq.path \in {"/health", "/api/docs"}) =>
              (h.state = "responded" /\ h.res.status = 200)

\* C20: an export runs (exportDiagram was called, a browser may be up) only
\* for a POST to an export route that carries the configured key: whatever
\* requests came before, none without that key starts one.
C20_ExportOnlyWithKey ==
  \A c \in Calls :
    (call[c].pc # "idle" \/ Launched(c) \/ http[c].state = "exporting") =>
      /\ IsExport(http[c].rq)
      /\ EnvVal(API_KEY) \in Carried(http[c].rq)

\* the server was started with API_KEY=s3cret; a request with that key in
\* the query and none in the header has a browser up
C20_Witness ==
  /\ API_KEY = "s3cret"
  /\ http["r1"].state = "exporting"
  /\ http["r1"].rq.hkey = EnvUnset
  /\ http["r1"].rq.qkey = EnvVal("s3cret")
  /\ call["r1"].browser = "open"

\* C21: a request to an export route in which at least one carrier, the
\* X-API-Key header or the apiKey query parameter, holds the configured key
\* is authenticated: it is answered neither 401 nor 403.
C21_EitherCarrierAuthenticates ==
  \A c \in Calls :
    (http[c].state # "idle" /\ IsExport(http[c].rq)
       /\ EnvVal(API_KEY) \in Carried(http[c].rq)) =>
      (http[c].state = "exporting" \/ http[c].res.status \notin {401, 403})

\* the key the server reads from the request, the header's when the header
\* has one and else the query's, is the configured key
KeyAccepted(rq) ==
  \/ IsSet(rq.hkey) /\ rq.hkey.val = API_KEY
  \/ ~IsSet(rq.hkey) /\ IsSet(rq.qkey) /\ rq.qkey.val = API_KEY

\* C22: a POST to /api/export or /api/export/base64 with a valid key whose
\* body has no xml, the field being absent or the empty string, is answered
\* 400 and exportDiagram is not called for it.
C22_MissingXmlIs400 ==
  \A c \in Calls :
    LET rq == http[c].rq IN
    (http[c].state # "idle" /\ IsExport(rq) /\ KeyAccepted(rq) /\ rq.body.parsed
       /\ rq.body.xml.k \in {"undefined", "empty"}) =>
      /\ http[c].state = "responded"
      /\ http[c].res.status = 400
      /\ call[c].pc = "idle" /\ ~Launched(c)

\* a base64 request with the key and xml: '' has been answered 400
C22_Witness ==
  /\ http["r1"].state = "responded"
  /\ http["r1"].rq.path = "/api/export/base64"
  /\ http["r1"].rq.hkey = EnvVal(API_KEY)
  /\ http["r1"].rq.body.xml = XmlEmpty
  /\ http["r1"].rq.body.format = FormatString(PDF)
  /\ http["r1"].res.status = 400
  /\ call["r1"].pc = "idle"

\* the media type an answered export carries: the Content-Type header of a
\* binary response, the mimeType field of a base64 response
MediaType(res) ==
  IF res.contentType = "application/json" THEN res.mimeType ELSE res.contentType

\* C23: every successful export, by either route and for every format the
\* core accepts, is labelled application/pdf exactly when the artifact is a
\* PDF and image/png exactly when it is a PNG.
C23_MediaTypeMatchesArtifact ==
  \A c \in Calls :
    (http[c].state = "responded" /\ IsExport(http[c].rq)
       /\ http[c].res.status = 200) =>
      /\ MediaType(http[c].res) = "application/pdf" <=> http[c].res.artifact.type = PDF
      /\ MediaType(http[c].res) = "image/png" <=> http[c].res.artifact.type = PNG

\* C24: a POST to an export route with a valid key and an xml string but a
\* format string the core does not accept is answered 400.
C24_InvalidFormatIs400 ==
  \A c \in Calls :
    LET rq == http[c].rq IN
    (http[c].state = "responded" /\ IsExport(rq) /\ KeyAccepted(rq)
       /\ rq.body.parsed /\ rq.body.xml.k = "string"
       /\ FormatMatch(formatOf(rq.body)) = NoMatch) =>
      http[c].res.status = 400

\* the bytes a base64 text stands for; <<-1>> when the text is not the
\* padded base64 encoding of any bytes
Base64Index(ch) == CHOOSE i \in 0..63 : Base64Char(i) = ch
IsBase64Char(ch) == \E i \in 0..63 : Base64Char(i) = ch
RECURSIVE fromBase64(_)
fromBase64(cs) ==
  IF cs = <<>> THEN <<>>
  ELSE IF Len(cs) < 4 \/ ~IsBase64Char(cs[1]) \/ ~IsBase64Char(cs[2]) THEN <<-1>>
  ELSE LET a == Base64Index(cs[1])
           b == Base64Index(cs[2])
       IN IF cs[3] = "=" /\ cs[4] = "="
            THEN IF Len(cs) = 4 /\ b % 16 = 0 THEN <<a * 4 + b \div 16>> ELSE <<-1>>
          ELSE IF ~IsBase64Char(cs[3]) THEN <<-1>>
          ELSE IF cs[4] = "="
            THEN IF Len(cs) = 4 /\ Base64Index(cs[3]) % 4 = 0
                   THEN <<a * 4 + b \div 16, (b % 16) * 16 + Base64Index(cs[3]) \div 4>>
                 ELSE <<-1>>
          ELSE IF ~IsBase64Char(cs[4]) THEN <<-1>>
          ELSE LET c3 == Base64Index(cs[3])
                   rest == fromBase64(SubSeq(cs, 5, Len(cs)))
               IN IF rest = <<-1>> THEN <<-1>>
                  ELSE <<a * 4 + b \div 16, (b % 16) * 16 + c3 \div 4,
                         (c3 % 4) * 64 + Base64Index(cs[4])>> \o rest

\* a successful answer of /api/export/base64
Base64Answered(c) ==
  /\ http[c].state = "responded"
  /\ http[c].rq.method = "POST" /\ http[c].rq.path = "/api/export/base64"
  /\ http[c].res.status = 200

\* C25: every successful base64 response is consistent: format is the
\* requested format, data is the base64 text of the artifact's bytes, size
\* is their number, and dataUrl is "data:" + mimeType + ";base64," + data.
C25_Base64ResponseConsistent ==
  \A c \in Calls :
    Base64Answered(c) =>
      LET res == http[c].res IN
      /\ res.format = formatOf(http[c].rq.body)
      /\ fromBase64(res.data) = res.buffer
      /\ res.size = Len(res.buffer)
      /\ res.dataUrl = "data:" \o res.mimeType \o ";base64," \o Join(res.data)

\* a two-byte PDF has been answered: its text ends in one '='
C25_Witness ==
  /\ Base64Answered("r1")
  /\ http["r1"].rq.body.format = FormatString(PDF)
  /\ http["r1"].res.buffer = <<77, 255>>
  /\ http["r1"].res.data = <<"T", "f", "8", "=">>
  /\ http["r1"].res.dataUrl = "data:application/pdf;base64,Tf8="
  /\ http["r1"].res.size = 2

\* the navigation of call c has ended: its request was answered and
\* page.goto has resolved
NavigationEnded(c) ==
  /\ req[c] # <<>>
  /\ req[c][1].state \in {"continued", "responded"}
  /\ call[c].pc \notin {"idle", "ensureAll", "launch", "newPage", "interception", "goto"}

\* what the session operations of a call change: the hook, the document in
\* the page, the render passes and what is made of them
SessionWork(cr) ==
  <<cr.hook, cr.injected, cr.kids, cr.pages, cr.i, cr.passes, cr.buffers,
    cr.mergerNew, cr.merger, cr.saved>>

C27_NavigationServedFromCache ==
  \A c \in Calls :
    ((\A t \in Names : file[t] = CompleteFile) /\ req[c] # <<>>) =>
      (req[c][1].url = NavUrl /\ req[c][1].state # "continued")

\* line 83 has run for the call: pages holds the derived page count
PagesDerived(cr) == cr.injected /\ cr.pc # "pages"

\* C28: the page count derived after the injection is an integer >= 1, the
\* value of the root's pages attribute or 1 when it is absent; no attribute
\* value ('0', a negative number, a non-numeric text) gives the render loop
\* a count below 1 or a count that is not an integer.
C28_PageCountAtLeastOne ==
  \A c \in Calls :
    (PagesDerived(call[c]) /\ call[c].mode = "loop") =>
      (call[c].pages.k = "int" /\ call[c].pages.v >= 1)

\* C29: a merger is created, and a merged document saved, only for the
\* format cat-pdf on a document whose derived page count is more than one.
C29_MergeOnlyCatPdfMultiPage ==
  \A c \in Calls :
    (call[c].mergerNew \/ call[c].saved \/ call[c].pc = "save") =>
      /\ call[c].format = CAT \o PDF
      /\ call[c].pages.k = "int" /\ call[c].pages.v > 1

\* C30: in a multi-page cat-pdf render the merger is given page artifacts
\* only once every page has rendered successfully, and after a failed pass
\* it has been given nothing.
C30_MergeAfterAllPages ==
  \A c \in Calls :
    (call[c].mode = "loop" /\ call[c].pages.k = "int" /\ call[c].pages.v > 1) =>
      /\ call[c].merger # <<>> =>
           Cardinality({k \in DOMAIN call[c].passes : call[c].passes[k].status = "ok"})
             = call[c].pages.v
      /\ (\E k \in DOMAIN call[c].passes : call[c].passes[k].status \notin {"run", "ok"}) =>
           (call[c].merger = <<>> /\ ~call[c].saved)

\* the passes of a call that failed, by position
FailedPasses(cr) == {k \in DOMAIN cr.passes : cr.passes[k].status = "failed"}

\* C31: when a step of the render pass of page i of a multi-page render
\* fails (the completion marker does not come, the bounds cannot be read,
\* the capture fails), the error the caller gets identifies the index i.
C31_RenderErrorNamesPage ==
  \A c \in Calls :
    (call[c].mode = "loop" /\ call[c].pc \in {"close", "done"}) =>
      \A k \in {j \in FailedPasses(call[c]) : call[c].passes[j].sub # <<>>} :
        /\ Outcome(call[c]).kind = "err"
        /\ Outcome(call[c]).arg = <<k - 1>>

\* the errors of the browser session and of the render passes
RenderErrors ==
  {"launch failed", "session failed", "render failed",
   "evaluate failed: appendChild(null)"}

\* the call ended at line 51, on the rejection of the fan-out
FetchFailed(c) ==
  /\ call[c].pc = "done"
  /\ call[c].browser = "none"
  /\ \E t \in Names : ens[c][t].pc = "rejected"

\* C32: a failed asset fetch (the request fails, or the stream fails in
\* mid-download) reaches the caller as an error value that tells a cache
\* fetch failure apart from a format error and from a render failure.
C32_FetchFailureDistinguishable ==
  \A c \in Calls :
    FetchFailed(c) =>
      /\ call[c].result.kind = "err"
      /\ call[c].result.msg # Undefined
      /\ call[c].result.msg \notin FormatErrors \cup RenderErrors

\* the page.evaluate of a pass of call c returns in this step, with the
\* sub-document built
BuildsSub(c) == call[c].pc = "genEval" /\ call'[c].pc = "waitSel"

\* the sub-document of the pass of call c that runs
RunningSub(cr) == cr.passes[Len(cr.passes)].sub

\* C33 as stated: the sub-document of a pass holds exactly one element
\* child, and the first non-element child of the document when the pass
\* begins, wherever that child is.
C33_FirstNonElementPlusOnePage ==
  [][ \A c \in Calls :
        BuildsSub(c) =>
          LET sub == RunningSub(call'[c])
              doc == call[c].kids
          IN /\ Cardinality({j \in DOMAIN sub : sub[j] > 0}) = 1
             /\ (\E j \in DOMAIN doc : doc[j] = 0) =>
                  \E j \in DOMAIN sub :
                    /\ sub[j] = 0
                    /\ doc[j] = 0
                    /\ \A i \in 1..(j - 1) : doc[i] > 0 ]_vars

\* C33, amended: the sub-document of a pass holds, in document order, every
\* node ahead of the document's first element child, none, one or several
\* non-element nodes, and then that element child alone; these nodes are
\* moved out of the document.
C33_LeadingNodesPlusOnePage ==
  [][ \A c \in Calls :
        BuildsSub(c) =>
          LET sub == RunningSub(call'[c])
          IN /\ sub # <<>>
             /\ sub[Len(sub)] > 0
             /\ \A j \in 1..(Len(sub) - 1) : sub[j] = 0
             /\ sub \o call'[c].kids = call[c].kids ]_vars

\* a pass has built its sub-document from two non-element nodes and a page
C33_Witness ==
  /\ call["r1"].pc = "waitSel"
  /\ RunningSub(call["r1"]) = <<0, 0, 1>>
  /\ call["r1"].kids = <<0, 2>>

\* the page elements of a document, in document order
IsElement(n) == n > 0
Elements(kids) == SelectSeq(kids, IsElement)

\* the passes of a call whose sub-document has been built
BuiltPasses(cr) == {k \in DOMAIN cr.passes : cr.passes[k].sub # <<>>}

\* C34: within one session the k-th render pass renders the k-th page
\* element of the injected document, whatever the pages attribute says: no
\* page element is rendered twice, the pages are rendered in document
\* order, and the nodes a pass renders are no longer in the parsed document.
C34_KthPassKthPage ==
  \A c \in Calls :
    LET cr == call[c]
        elems == Elements(cr.xml.kids)
    IN /\ \A k \in BuiltPasses(cr) :
            /\ k <= Len(elems)
            /\ Elements(cr.passes[k].sub) = <<elems[k]>>
       /\ \A k \in BuiltPasses(cr) : \A j \in BuiltPasses(cr) :
            k < j => ~\E n \in DOMAIN cr.passes[j].sub :
                        cr.passes[j].sub[n] = elems[k]
       /\ cr.injected =>
            Elements(cr.kids) = SubSeq(elems, Cardinality(BuiltPasses(cr)) + 1, Len(elems))

\* a document of two pages that says it has three: two passes rendered the
\* two pages in order and the third found none
C34_Witness ==
  /\ call["r1"].pc = "done"
  /\ call["r1"].xml = [attr |-> AttrInt(3), kids |-> <<0, 0, 1, 0, 2>>]
  /\ Len(call["r1"].passes) = 3
  /\ BuiltPasses(call["r1"]) = {1, 2}
  /\ call["r1"].passes[1].sub = <<0, 0, 1>>
  /\ call["r1"].passes[2].sub = <<0, 2>>

\* the file of resource t is what a failed download left behind: it exists,
\* it is not the complete resource, and the fetch that wrote it has failed
PartialLeftBehind(t) ==
  /\ file[t].exists
  /\ file[t].data # CompleteData
  /\ \E c \in Calls : ens[c][t].pc = "rejected" /\ ens[c][t].ws # "none"
  /\ \A c \in Calls : ens[c][t].pc \notin {"get", "stream"}

\* C36: after a download of a resource that failed part-way, a later ensure
\* of that resource fetches it again: the partial file a failed fetch left
\* behind is never taken for the cached resource.
C36_PartialFileRefetched ==
  [][ \A c \in Calls : \A t \in Names :
        (ens[c][t].pc = "exists" /\ PartialLeftBehind(t)) =>
          ens'[c][t].pc \in {"exists", "get"} ]_vars

\* the ensure e has something in flight: its request, its download, or a
\* write stream that has yet to open or to write out what it was given
InFlight(e) ==
  \/ e.pc \in {"exists", "get", "stream"}
  \/ e.ws = "pending"
  \/ e.ws = "open" /\ e.written < e.recv

\* C37: when a render call has returned or thrown, nothing it started is
\* still in flight: no fetch of its fan-out is downloading or writing to
\* the cache directory, and no intercepted request is waiting for its file.
C37_NothingInFlightAtReturn ==
  \A c \in Calls :
    call[c].pc = "done" =>
      /\ \A t \in Names : ~InFlight(ens[c][t])
      /\ \A k \in DOMAIN req[c] : req[c][k].state # "reading"

\* the handler has answered the request: respond, abort or continue
Answered(r) == r.state \in {"responded", "aborted", "continued"}

\* C38 as stated: every intercepted request gets its one answer: none is
\* answered after the browser that asked is gone, which leaves it
\* unanswered.
C38_NoRequestUnanswered ==
  \A c \in Calls : \A k \in DOMAIN req[c] : ~req[c][k].lost

\* C38, amended: the handler answers every intercepted request exactly
\* once: a request outside the manifest is continued at once, a request for
\* a manifest URL is responded to or aborted when the read of the cached
\* file completes, which it does whatever its outcome, and an answer is
\* never changed or given again.
C38_AnsweredExactlyOnce ==
  /\ [][ \A c \in Calls : \A k \in DOMAIN req'[c] :
            IF k \in DOMAIN req[c]
              THEN /\ Answered(req[c][k]) => req'[c][k] = req[c][k]
                   /\ ~Answered(req[c][k]) =>
                        (req'[c][k].state \in {"reading", "responded", "aborted"}
                           /\ req'[c][k].url = req[c][k].url)
              ELSE req'[c][k].state =
                     (IF req'[c][k].url \in Urls THEN "reading" ELSE "continued") ]_vars
  /\ \A k \in 1..(MaxRequests + 1) :
       (k \in DOMAIN req["r1"] /\ ~Answered(req["r1"][k]))
         ~> (k \in DOMAIN req["r1"] /\ req["r1"][k].state \in {"responded", "aborted"})

\* two requests of one session have been answered, one continued and one
\* aborted on an unreadable file, before the browser was closed
C38_Witness ==
  /\ Len(req["r1"]) = 2
  /\ req["r1"][1].state = "continued"
  /\ req["r1"][2].state = "aborted"
  /\ ~req["r1"][2].lost
  /\ call["r1"].browser = "open"

\* C39: the extraction loop of a pass ends, and a pass that finds no
\* element child in the parsed document (an empty document, or more passes
\* than page elements) ends with an error: it builds no sub-document, goes
\* on to no render step, and the call fails; a sub-document that is
\* rendered always holds a page element.
C39_NoPageEndsPass ==
  /\ [](\A c \in Calls :
          call[c].pc \in {"waitSel", "bounds", "viewport", "capture"} =>
            Len(Elements(RunningSub(call[c]))) = 1)
  /\ [][ \A c \in Calls :
            (call[c].pc = "genEval" /\ Elements(call[c].kids) = <<>>
               /\ call'[c] # call[c]) =>
              /\ call'[c].pc = "close"
              /\ call'[c].pending.kind = "err"
              /\ call'[c].passes[Len(call'[c].passes)].status = "failed"
              /\ RunningSub(call'[c]) = <<>> ]_vars

\* the second pass of a cat-pdf call on a document with one page element
\* has failed on the missing element
C39_Witness ==
  /\ call["r1"].pc = "done"
  /\ call["r1"].result = Err("evaluate failed: appendChild(null)", <<>>)
  /\ call["r1"].xml.kids = <<0, 1>>
  /\ Len(call["r1"].passes) = 2
  /\ call["r1"].passes[1].status = "ok"

\* C40: both export routes validate alike: a request with a valid key
\* whose xml is present but not a string is answered 400 by
\* /api/export/base64 as by /api/export, and exportDiagram is not called
\* for it.
C40_NonStringXmlIs400 ==
  \A c \in Calls :
    LET rq == http[c].rq IN
    (http[c].state # "idle" /\ IsExport(rq) /\ KeyAccepted(rq) /\ rq.body.parsed
       /\ rq.body.xml.k = "other") =>
      /\ http[c].state = "responded"
      /\ http[c].res.status = 400
      /\ call[c].pc = "idle"

====
